---- MODULE Spec2Model ----
(***************************************************************************)
(* Extrema localisation by frequency fits (gw_eccentricity):               *)
(*   eccDefinitionUsingFrequencyFits.find_extrema  - the outer walk        *)
(*   FindExtremaNearIdxRef                         - the window resolver   *)
(*   eccDefinitionUsingAmplitude.find_extrema      - the plain peak finder *)
(*                                                                         *)
(* Numbers.  Phases are integers in units of 4*pi/FourPi.  K is kept as an *)
(* exact fraction num/den (den = 0 is the NaN that 0.0/0.0 gives), so every*)
(* comparison "phase22 > phase22[i] +- c*K*4*pi" is cross-multiplied.      *)
(* Frequencies are integers, so |a-b| < TOL (1e-8) is a = b.               *)
(* Array indices are 0-based as in the source; sequences of found extrema  *)
(* are TLA+ sequences (1-based) and At0 reads them with a 0-based index.   *)
(*                                                                         *)
(* The envelope parameters p=(f0,f1,T) are abstracted to an index into a   *)
(* table of envelopes (Trend); scipy's curve_fit is an external solver and *)
(* is a nondeterministic choice of such an index, or a failure.            *)
(***************************************************************************)
EXTENDS Integers, Sequences, FiniteSets, TLC

VARIABLES
    method,          \* which class' find_extrema is called
    extrema_type,    \* argument of find_extrema
    len,             \* len(phase22)
    t,               \* self.t_analyse
    t0,              \* f_fit.t0, the reference time of the envelope model
    phase22,         \* self.phase22_analyse
    omega22,         \* self.omega22_analyse
    pc,              \* position in find_extrema / FindExtremaNearIdxRef
    err,             \* the exception that ended the call ("none" if none)
    sign,
    p,               \* envelope parameters (index of the envelope), NoFit before
    K,
    idx_ref,
    extrema,         \* list collected by find_extrema
    count,
    result,          \* value handed to the caller of find_extrema
    Nbefore, Nafter, increase_idx_ref_if_needed,
    idx_lo, idx_hi, it,
    old_extrema, old_idx_lo, old_idx_hi, interval_changed_on_it,
    idx_extrema,     \* candidates of the last detection / returned array
    ref_in,          \* idx_ref as passed to the running resolver call
    K_in,            \* K as passed to the running resolver call
    ref_out,         \* idx_ref as returned by the last resolver call
    solver,          \* which function of its arguments curve_fit is (AnySolver: any)
    turn,            \* the invocation that is running (1 or 2)
    other            \* the locals of the invocation that is not running

vars == <<method, extrema_type, len, t, t0, phase22, omega22, pc, err, sign, p, K,
          idx_ref, extrema, count, result, Nbefore, Nafter,
          increase_idx_ref_if_needed, idx_lo, idx_hi, it, old_extrema,
          old_idx_lo, old_idx_hi, interval_changed_on_it, idx_extrema,
          ref_in, K_in, ref_out, solver, turn, other>>

-----------------------------------------------------------------------------
(* Program constants *)

N == 3            \* extrema sought on each side of idx_ref
ItCap == 10       \* "if it>10: raise"
LateCap == 100    \* "if(it>100): raise", after the refit
CountCap == 2     \* "if count>1000: raise"; scaled so that a walk reaches it
FourPi == 10      \* 4*np.pi in phase units
KInitial == [num |-> 12, den |-> 10]     \* K = 1.2

(* Bounds of the model *)

MaxLen == 20      \* longest series
MaxSlope == 2     \* envelopes the fitter may return: 0..MaxSlope
MaxDip == 2       \* a deviating cycle has a bump of height 2-MaxDip..1

NoFit == 0 - 1
Unassigned == 0 - 1
NoResult == <<0 - 1>>
Fits == 0..MaxSlope
AnySolver == 0 - 1
NoInvocation == <<>>

-----------------------------------------------------------------------------
(* numpy / scipy primitives, as the code uses them *)

\* a[i] of a Python array held as a sequence (i >= 0)
At0(a, i) == a[i + 1]

\* a[-k] of a Python array held as a sequence (k >= 1)
AtEnd(a, k) == a[Len(a) - k + 1]

\* np.argmax(mask): the first index where mask holds, 0 when it holds nowhere
\* (T is the set of indices where the mask holds)
ArgmaxFirst(T) ==
    IF T = {} THEN 0 ELSE CHOOSE i \in T : \A j \in T : i <= j

\* the increasing array of the members of S
SortedSeq(S) ==
    [i \in 1..Cardinality(S) |->
        CHOOSE x \in S : Cardinality({y \in S : y < x}) = i - 1]

\* sum(idx_extrema < idx_ref)
CountBelow(e, ref) == Cardinality({i \in 1..Len(e) : e[i] < ref})

\* sum(idx_extrema >= idx_ref)
CountAtOrAbove(e, ref) == Cardinality({i \in 1..Len(e) : e[i] >= ref})

\* f_fit(t, *p) at sample i: the envelope of index fit
Trend(fit, i) == fit * i

\* the merger-time parameter T of the envelope of index fit; curve_fit keeps
\* it within bounds0 = [0.8*t[-1], -fit_center_time], which is 0..len-1 for
\* the sample times TimesOf
FitT(fit) == fit

\* envelope_fitting_function.__call__: "if t.max()>T: raise", ts the times
EnvelopeRaises(ts, T) == \E x \in ts : x > T

\* what __call__ returns is A*(T-t)**n; the model keeps the base T-t
EnvelopeBase(ts, n, T) == [i \in 1..n |-> T - ts[i - 1]]

\* sign*omega_residual at sample i
Residual(om, sgn, fit, i) == sgn * (om[i] - Trend(fit, i))

\* scipy.signal.find_peaks(x) for x given on lo..hi-1 (the slice [lo:hi], the
\* offset lo already added back): the midpoints (l+r)//2 of the plateaus
\* l..r that are strictly higher than both neighbours; the first and the last
\* sample of the slice are never peaks.
PeaksOf(x, lo, hi) ==
    SortedSeq({m \in (lo + 1)..(hi - 2) :
        \E l \in (lo + 1)..m : \E r \in {2 * m - l, 2 * m - l + 1} :
            /\ r <= hi - 2
            /\ x[l - 1] < x[l]
            /\ x[r + 1] < x[r]
            /\ \A j \in l..r : x[j] = x[l]})

\* find_peaks(sign * data) over the whole data set
FindPeaksUnfitted(om, sgn, lo, hi) ==
    PeaksOf([i \in lo..(hi - 1) |-> sgn * om[i]], lo, hi)

\* find_peaks(sign*omega_residual) + idx_lo, with
\* omega_residual = omega22[idx_lo:idx_hi] - f_fit(t[idx_lo:idx_hi], *p)
FindPeaks(om, sgn, fit, lo, hi) ==
    PeaksOf([i \in lo..(hi - 1) |-> Residual(om, sgn, fit, i)], lo, hi)

-----------------------------------------------------------------------------
(* Input series *)

Odd(i) == i % 2 = 1

\* phase22 advancing by step units per sample
PhaseOf(n, step) == [i \in 0..(n - 1) |-> step * i]

\* omega22 = secular trend (slope 1) + one modulation bump per cycle, the
\* bump of cycle c sitting at sample 2c+1 with height amp[c]
OmegaOf(n, amp) ==
    [i \in 0..(n - 1) |-> i + (IF Odd(i) THEN amp[(i - 1) \div 2] ELSE 0)]

\* sample times ending at the merger time 0, two time units per sample
TimesOf(n) == [i \in 0..(n - 1) |-> 2 * (i - (n - 1))]

\* fit_center_time = 0.5*(self.t_analyse[0] + self.t_analyse[-1])
FitCenterTime(ts, n) == (ts[0] + ts[n - 1]) \div 2

Cycles(n) == 0..((n \div 2) - 1)

\* full modulation (2) on every cycle, or on every cycle but one whose bump
\* is weak (1), absent (0) or lower still, or no modulation at all (the
\* frequency of a circular orbit)
AmpInputs(n) ==
    {[c \in Cycles(n) |-> 2], [c \in Cycles(n) |-> 0]} \cup
    {[c \in Cycles(n) |-> IF c = d THEN v ELSE 2] :
        d \in Cycles(n), v \in (2 - MaxDip)..1}

\* the series drawn for a call: every defect pattern under the names
\* 'maxima', 'minima' and the unknown one, the defect-free series under the
\* aliases (the alias only selects the sign, as the name it stands for does)
AmpInputsFor(n, type) ==
    IF type \in {"peaks", "troughs"}
    THEN {[c \in Cycles(n) |-> 2]}
    ELSE AmpInputs(n)

\* 7 samples: the phase never advances by K*N*4*pi; 11 samples: five cycles
ShortLens == {7, 11}
Lens == ShortLens \cup {MaxLen - 2, MaxLen}
PhaseSteps == {5, 6}
ExtremaTypes == {"maxima", "peaks", "minima", "troughs", "extrema"}
Methods == {"FrequencyFits", "Amplitude"}

-----------------------------------------------------------------------------
(* Window arithmetic of FindExtremaNearIdxRef.  Kc is the fraction num/den; *)
(* with den = 0 (NaN) every comparison is False and argmax gives 0.         *)

UpdatedKKeepingOld(ph, e) == K

\* K = (phase22[idx_extrema[-1]] - phase22[idx_extrema[0]])
\*        / (4*np.pi * (len(idx_extrema)-1)),   for a non-empty idx_extrema
UpdatedK(ph, e) ==
    [num |-> ph[AtEnd(e, 1)] - ph[At0(e, 0)], den |-> FourPi * (Len(e) - 1)]

\* idx_lo = np.argmax(phase22 > phase22[idx_ref] - DeltaPhase*Nbefore)
InitialLo(ph, n, ref, Kc, nb) ==
    ArgmaxFirst({i \in 0..(n - 1) :
        Kc.den # 0 /\ ph[i] * Kc.den > ph[ref] * Kc.den - FourPi * Kc.num * nb})

\* idx_hi = np.argmax(phase22 > phase22[idx_ref] + DeltaPhase*Nafter),
\* and len(phase22) when that is 0
InitialHi(ph, n, ref, Kc, na) ==
    LET h == ArgmaxFirst({i \in 0..(n - 1) :
                 Kc.den # 0 /\ ph[i] * Kc.den > ph[ref] * Kc.den + FourPi * Kc.num * na})
    IN  IF h = 0 THEN n ELSE h

LoAtLastDiscarded(e, nleft, nb) == At0(e, nleft - nb - 1)

\* too many left: int((idx_extrema[Nleft-Nbefore-1]+idx_extrema[Nleft-Nbefore])/2)
LoDiscardingExcess(e, nleft, nb) ==
    (At0(e, nleft - nb - 1) + At0(e, nleft - nb)) \div 2

\* too few left, data remains: phase_lo = phase22[idx_extrema[0]] - K*4*np.pi*1.5
\* idx_lo = np.argmax(phase22 > phase_lo)
LoWidened(ph, n, e, Kc) ==
    ArgmaxFirst({i \in 0..(n - 1) :
        Kc.den # 0 /\
        ph[i] * 2 * Kc.den > ph[At0(e, 0)] * 2 * Kc.den - 3 * FourPi * Kc.num})

ShiftedIdxRefOntoFirst(e, ref) ==
    At0(e, ArgmaxFirst({i \in 0..(Len(e) - 1) : At0(e, i) >= ref}))

\* tmp = np.argmax(idx_extrema >= idx_ref);
\* idx_ref = int((idx_extrema[tmp] + idx_extrema[tmp+1])/2)
ShiftedIdxRef(e, ref) ==
    LET tmp == ArgmaxFirst({i \in 0..(Len(e) - 1) : At0(e, i) >= ref})
    IN  (At0(e, tmp) + At0(e, tmp + 1)) \div 2

\* too many right: int((idx_extrema[Nafter-Nright]+idx_extrema[Nafter-Nright-1])/2)
\* (both indices are negative: they count from the end)
HiDiscardingExcess(e, nright, na) ==
    (AtEnd(e, nright - na) + AtEnd(e, nright - na + 1)) \div 2

\* too few right, data remains: phase_hi = phase22[idx_extrema[-1]] + K*4*np.pi*1.5
\* idx_hi = np.argmax(phase22 > phase_hi), and len(phase22) when that is 0
HiWidened(ph, n, e, Kc) ==
    LET h == ArgmaxFirst({i \in 0..(n - 1) :
                 Kc.den # 0 /\
                 ph[i] * 2 * Kc.den > ph[AtEnd(e, 1)] * 2 * Kc.den + 3 * FourPi * Kc.num})
    IN  IF h = 0 THEN n ELSE h

ConvergedWhateverTheBaseline(vals, old) == TRUE

\* max(np.abs(omega22_extrema-old_extrema)) < TOL, 1e99 when the lengths differ
Converged(vals, old) ==
    /\ Len(vals) = Len(old)
    /\ \A i \in 1..Len(vals) : vals[i] = old[i]

-----------------------------------------------------------------------------
(* One pass of the "while True" loop of FindExtremaNearIdxRef, up to the    *)
(* point where it continues, returns, refits or raises.                     *)

\* the "if Nleft != Nbefore or Nright != Nafter" block, left side:
\* the new idx_lo, idx_ref and Nright, or the exception raised
LeftCorrection(e, nleft, nright, Kc) ==
    IF nleft > Nbefore
    THEN [lo |-> LoDiscardingExcess(e, nleft, Nbefore), ref |-> idx_ref,
          nright |-> nright, err |-> "none"]
    ELSE IF nleft < Nbefore
    THEN IF idx_lo = 0
         THEN IF increase_idx_ref_if_needed
              THEN IF nright >= 2
                   THEN [lo |-> idx_lo, ref |-> ShiftedIdxRef(e, idx_ref),
                         nright |-> nright - 1, err |-> "none"]
                   ELSE [lo |-> idx_lo, ref |-> idx_ref, nright |-> nright,
                         err |-> "none"]
              ELSE [lo |-> idx_lo, ref |-> idx_ref, nright |-> nright,
                    err |-> "InsufficientLeftExtrema"]
         ELSE [lo |-> LoWidened(phase22, len, e, Kc), ref |-> idx_ref,
               nright |-> nright, err |-> "none"]
    ELSE [lo |-> idx_lo, ref |-> idx_ref, nright |-> nright, err |-> "none"]

GraceOnlyOnChange(lo, hi, itn) ==
    <<lo, hi>> # <<old_idx_lo, old_idx_hi>>

\* the test that lets a two-short window have one more curve_fit:
\* (idx_lo,idx_hi)!=(old_idx_lo, old_idx_hi) or it <= interval_changed_on_it+1
GraceForRefit(lo, hi, itn) ==
    \/ <<lo, hi>> # <<old_idx_lo, old_idx_hi>>
    \/ itn <= interval_changed_on_it + 1

\* right side of the block, run after the left side: the new idx_hi or the
\* exception raised
RightCorrection(e, lo, nright, Kc, itn) ==
    IF nright > Nafter
    THEN [hi |-> HiDiscardingExcess(e, nright, Nafter), err |-> "none"]
    ELSE IF nright < Nafter
    THEN IF idx_hi < len
         THEN [hi |-> HiWidened(phase22, len, e, Kc), err |-> "none"]
         ELSE IF nright < Nafter - 1
              THEN IF <<lo, idx_hi>> = <<old_idx_lo, old_idx_hi>>
                      /\ interval_changed_on_it = Unassigned
                   THEN [hi |-> idx_hi, err |-> "UnboundLocalError"]
                   ELSE IF GraceForRefit(lo, idx_hi, itn)
                   THEN [hi |-> idx_hi, err |-> "none"]
                   ELSE [hi |-> idx_hi, err |-> "InsufficientRightExtrema"]
              ELSE [hi |-> idx_hi, err |-> "none"]
    ELSE [hi |-> idx_hi, err |-> "none"]

WindowChangedNever(lo, hi) == FALSE

\* if (idx_lo,idx_hi) != (old_idx_lo, old_idx_hi): ... continue
WindowChanged(lo, hi) == <<lo, hi>> # <<old_idx_lo, old_idx_hi>>

\* omega22[idx_extrema]
ValuesAt(om, e) == [i \in 1..Len(e) |-> om[e[i]]]

\* the pass from the correction block on, for the candidates e just detected:
\* kind is "raise", "continue" (window changed, back to the detection),
\* "return" or "refit"
OutcomeAfterDetection(e, itn) ==
    IF Len(e) = 0
    THEN \* idx_extrema[-1] on an empty array
         [kind |-> "raise", err |-> "IndexError", e |-> e, Kc |-> K,
          lo |-> idx_lo, hi |-> idx_hi, ref |-> idx_ref]
    ELSE
    LET Nleft == CountBelow(e, idx_ref)
        Nright == CountAtOrAbove(e, idx_ref)
        Kc == UpdatedK(phase22, e)
        mismatch == Nleft # Nbefore \/ Nright # Nafter
        L == LeftCorrection(e, Nleft, Nright, Kc)
        R == RightCorrection(e, L.lo, L.nright, Kc, itn)
        check == IF Converged(ValuesAt(omega22, e), old_extrema)
                 THEN "return" ELSE "refit"
    IN  IF ~mismatch
        THEN [kind |-> check, err |-> "none", e |-> e, Kc |-> Kc,
              lo |-> idx_lo, hi |-> idx_hi, ref |-> idx_ref]
        ELSE IF L.err # "none"
        THEN [kind |-> "raise", err |-> L.err, e |-> e, Kc |-> Kc,
              lo |-> idx_lo, hi |-> idx_hi, ref |-> idx_ref]
        ELSE IF R.err # "none"
        THEN [kind |-> "raise", err |-> R.err, e |-> e, Kc |-> Kc,
              lo |-> L.lo, hi |-> idx_hi, ref |-> L.ref]
        ELSE IF WindowChanged(L.lo, R.hi)
        THEN [kind |-> "continue", err |-> "none", e |-> e, Kc |-> Kc,
              lo |-> L.lo, hi |-> R.hi, ref |-> L.ref]
        ELSE [kind |-> check, err |-> "none", e |-> e, Kc |-> Kc,
              lo |-> L.lo, hi |-> R.hi, ref |-> L.ref]

CapExceededLate(itn) == itn > ItCap + 1

\* if it>10: raise
CapExceeded(itn) == itn > ItCap

LateCapExceededEarly(itn) == itn > 1

\* if(it>100): raise, the last statement of the loop body
LateCapExceeded(itn) == itn > LateCap

\* what the pass number itn does
PassOutcome(itn) ==
    IF CapExceeded(itn)
    THEN [kind |-> "raise", err |-> "NotConverged", e |-> idx_extrema, Kc |-> K,
          lo |-> idx_lo, hi |-> idx_hi, ref |-> idx_ref]
    ELSE IF idx_lo >= idx_hi
    THEN \* t[idx_lo:idx_hi] is empty: t.max() in f_fit raises ValueError
         [kind |-> "raise", err |-> "EmptySlice", e |-> idx_extrema, Kc |-> K,
          lo |-> idx_lo, hi |-> idx_hi, ref |-> idx_ref]
    ELSE IF EnvelopeRaises({t[i] : i \in idx_lo..(idx_hi - 1)}, FitT(p))
    THEN \* f_fit(t[idx_lo:idx_hi], *p) raises
         [kind |-> "raise", err |-> "FittingDomain", e |-> idx_extrema, Kc |-> K,
          lo |-> idx_lo, hi |-> idx_hi, ref |-> idx_ref]
    ELSE OutcomeAfterDetection(FindPeaks(omega22, sign, p, idx_lo, idx_hi), itn)

-----------------------------------------------------------------------------
(* find_extrema *)

SignOfTypeNoAlias(type) ==
    IF type = "maxima" THEN 1
    ELSE IF type = "minima" THEN 0 - 1
    ELSE 0

\* the sign chosen from extrema_type; 0 stands for the "unknown" exception
SignOfType(type) ==
    IF type \in {"maxima", "peaks"} THEN 1
    ELSE IF type \in {"minima", "troughs"} THEN 0 - 1
    ELSE 0

StartIdxRefAtOrAbove(ph, n, Kc) ==
    ArgmaxFirst({i \in 0..(n - 1) :
        ph[i] * Kc.den >= ph[0] * Kc.den + FourPi * Kc.num * N})

StartIdxRefBeyond2N(ph, n, Kc) ==
    ArgmaxFirst({i \in 0..(n - 1) :
        ph[i] * Kc.den > ph[0] * Kc.den + FourPi * Kc.num * 2 * N})

\* idx_ref = np.argmax(phase22 > phase22[0] + K*N*4*np.pi)
StartIdxRef(ph, n, Kc) ==
    ArgmaxFirst({i \in 0..(n - 1) :
        ph[i] * Kc.den > ph[0] * Kc.den + FourPi * Kc.num * N})

AppendedExtremumOneRight(e) == At0(e, N + 1)

\* extrema.append(idx_extrema[N])
AppendedExtremum(e) == At0(e, N)

NextIdxRefAtAppended(e) == At0(e, N)

NextIdxRefOneBack(e) == (At0(e, N - 1) + At0(e, N)) \div 2

\* idx_ref = int(0.5*(idx_extrema[N+1]+idx_extrema[N+2]))
NextIdxRef(e) == (At0(e, N + 1) + At0(e, N + 2)) \div 2

EndOfDataStrict(e) == Len(e) < 2 * N

\* if len(idx_extrema) <= 2*N: break
EndOfData(e) == Len(e) <= 2 * N

RunawayEarly(c) == c >= CountCap

\* if count>1000: raise
Runaway(c) == c > CountCap

Zeros(n) == [i \in 1..n |-> 0]

RecordedAtEntryAsWindow(lo, hi) == <<lo, hi>>

\* old_idx_lo, old_idx_hi = -1, -1
RecordedAtEntry(lo, hi) == <<0 - 1, 0 - 1>>

\* scipy.optimize.curve_fit(f_fit, t[e], omega22[e], p0=p0, bounds=...): the
\* envelopes it may return, NoFit standing for an exception raised in it.
\* With AnySolver nothing is assumed of it; a solver 0, 1, .. is one fixed
\* function of the arguments, as any one installed curve_fit is.
CurveFit(sv, p0, e) ==
    IF sv = AnySolver
    THEN Fits \cup {NoFit}
    ELSE {(sv + (p0 + 1) + Len(e)) % (MaxSlope + 1)}

OmegaAfterResidualInPlace(om, fit, lo, hi) ==
    [i \in DOMAIN om |-> IF lo <= i /\ i < hi THEN om[i] - Trend(fit, i) ELSE om[i]]

\* omega22 after "omega_residual = omega22[idx_lo:idx_hi] - f_fit(...)": the
\* subtraction builds a new array, the slice of omega22 is only read
OmegaAfterResidual(om, fit, lo, hi) == om

FailEndingNormally(e) ==
    /\ pc' = "done"
    /\ err' = e

Fail(e) ==
    /\ pc' = "failed"
    /\ err' = e

Init ==
    /\ method \in Methods
    /\ extrema_type \in ExtremaTypes
    /\ len \in Lens
    /\ t = TimesOf(len)
    /\ t0 = Unassigned
    /\ \E step \in PhaseSteps : phase22 = PhaseOf(len, step)
    /\ \E amp \in AmpInputsFor(len, extrema_type) : omega22 = OmegaOf(len, amp)
    /\ pc = "validate"
    /\ err = "none"
    /\ sign = 0
    /\ p = NoFit
    /\ K = KInitial
    /\ idx_ref = 0
    /\ extrema = <<>>
    /\ count = 0
    /\ result = NoResult
    /\ Nbefore = N + 1
    /\ Nafter = N
    /\ increase_idx_ref_if_needed = TRUE
    /\ idx_lo = 0
    /\ idx_hi = 0
    /\ it = 0
    /\ old_extrema = <<>>
    /\ old_idx_lo = 0 - 1
    /\ old_idx_hi = 0 - 1
    /\ interval_changed_on_it = Unassigned
    /\ idx_extrema = <<>>
    /\ ref_in = 0
    /\ K_in = KInitial
    /\ ref_out = 0
    /\ solver = AnySolver
    /\ turn = 1
    /\ other = NoInvocation

\* STEP 0: the extrema_type test (both classes)
ValidateType ==
    /\ pc = "validate"
    /\ sign' = SignOfType(extrema_type)
    /\ IF sign' = 0
       THEN Fail("InvalidExtremaType")
       ELSE /\ pc' = IF method = "Amplitude" THEN "find_peaks" ELSE "global_fit"
            /\ err' = err
    /\ UNCHANGED <<t, t0, solver, turn, other>>
    /\ UNCHANGED <<method, extrema_type, len, phase22, omega22, p, K, idx_ref,
                   extrema, count, result, Nbefore, Nafter,
                   increase_idx_ref_if_needed, idx_lo, idx_hi, it, old_extrema,
                   old_idx_lo, old_idx_hi, interval_changed_on_it, idx_extrema,
                   ref_in, K_in, ref_out>>

\* eccDefinitionUsingAmplitude: return find_peaks(sign * data)[0]
AmplitudeFindPeaks ==
    /\ pc = "find_peaks"
    /\ result' = FindPeaksUnfitted(omega22, sign, 0, len)
    /\ pc' = "done"
    /\ UNCHANGED <<t, t0, solver, turn, other>>
    /\ UNCHANGED <<method, extrema_type, len, phase22, omega22, err, sign, p, K,
                   idx_ref, extrema, count, Nbefore, Nafter,
                   increase_idx_ref_if_needed, idx_lo, idx_hi, it, old_extrema,
                   old_idx_lo, old_idx_hi, interval_changed_on_it, idx_extrema,
                   ref_in, K_in, ref_out>>

\* STEP 1: the global curve_fit
GlobalFit ==
    /\ pc = "global_fit"
    /\ t0' = FitCenterTime(t, len)
    /\ \E q \in CurveFit(solver, p, <<>>) :
          IF q = NoFit
          THEN Fail("FitFailed") /\ p' = p
          ELSE pc' = "choose_ref" /\ err' = err /\ p' = q
    /\ UNCHANGED <<t, solver, turn, other>>
    /\ UNCHANGED <<method, extrema_type, len, phase22, omega22, sign, K, idx_ref,
                   extrema, count, result, Nbefore, Nafter,
                   increase_idx_ref_if_needed, idx_lo, idx_hi, it, old_extrema,
                   old_idx_lo, old_idx_hi, interval_changed_on_it, idx_extrema,
                   ref_in, K_in, ref_out>>

\* STEP 2 set-up: extrema=[], K=1.2, the starting idx_ref
ChooseIdxRef ==
    /\ pc = "choose_ref"
    /\ extrema' = <<>>
    /\ K' = KInitial
    /\ idx_ref' = StartIdxRef(phase22, len, K')
    /\ count' = 0
    /\ IF idx_ref' = 0
       THEN Fail("DataSetTooShort")
       ELSE pc' = "call" /\ err' = err
    /\ UNCHANGED <<t, t0, solver, turn, other>>
    /\ UNCHANGED <<method, extrema_type, len, phase22, omega22, sign, p, result,
                   Nbefore, Nafter, increase_idx_ref_if_needed, idx_lo, idx_hi,
                   it, old_extrema, old_idx_lo, old_idx_hi,
                   interval_changed_on_it, idx_extrema, ref_in, K_in, ref_out>>

\* count=count+1 and the call FindExtremaNearIdxRef(..., idx_ref, sign, N+1, N, K, ...,
\* increase_idx_ref_if_needed = True)
CallResolver ==
    /\ pc = "call"
    /\ count' = count + 1
    /\ Nbefore' = N + 1
    /\ Nafter' = N
    /\ increase_idx_ref_if_needed' = TRUE
    /\ ref_in' = idx_ref
    /\ K_in' = K
    /\ pc' = "enter"
    /\ UNCHANGED <<t, t0, solver, turn, other>>
    /\ UNCHANGED <<method, extrema_type, len, phase22, omega22, err, sign, p, K,
                   idx_ref, extrema, result, idx_lo, idx_hi, it, old_extrema,
                   old_idx_lo, old_idx_hi, interval_changed_on_it, idx_extrema,
                   ref_out>>

\* FindExtremaNearIdxRef before its loop: the phase-based window and the
\* initial values of the loop's variables
EnterResolver ==
    /\ pc = "enter"
    /\ idx_lo' = InitialLo(phase22, len, idx_ref, K, Nbefore)
    /\ idx_hi' = InitialHi(phase22, len, idx_ref, K, Nafter)
    /\ it' = 0
    /\ old_extrema' = Zeros(Nbefore + Nafter)
    /\ old_idx_lo' = RecordedAtEntry(idx_lo', idx_hi')[1]
    /\ old_idx_hi' = RecordedAtEntry(idx_lo', idx_hi')[2]
    /\ interval_changed_on_it' = Unassigned
    /\ idx_extrema' = <<>>
    /\ pc' = "resolve"
    /\ UNCHANGED <<t, t0, solver, turn, other>>
    /\ UNCHANGED <<method, extrema_type, len, phase22, omega22, err, sign, p, K,
                   idx_ref, extrema, count, result, Nbefore, Nafter,
                   increase_idx_ref_if_needed, ref_in, K_in, ref_out>>

\* one pass of the resolver's loop
ResolverPass ==
    /\ pc = "resolve"
    /\ it' = it + 1
    /\ omega22' = OmegaAfterResidual(omega22, p, idx_lo, idx_hi)
    /\ \E o \in {PassOutcome(it + 1)} :
       /\ idx_extrema' = o.e
       /\ K' = o.Kc
       /\ idx_lo' = o.lo
       /\ idx_hi' = o.hi
       /\ idx_ref' = o.ref
       /\ CASE o.kind = "raise" ->
                 /\ Fail(o.err)
                 /\ UNCHANGED <<p, old_extrema, old_idx_lo, old_idx_hi,
                                interval_changed_on_it>>
            [] o.kind = "continue" ->
                 /\ interval_changed_on_it' = it + 1
                 /\ old_idx_lo' = o.lo
                 /\ old_idx_hi' = o.hi
                 /\ UNCHANGED <<pc, err, p, old_extrema>>
            [] o.kind = "return" ->
                 /\ pc' = "returned"
                 /\ UNCHANGED <<err, p, old_extrema, old_idx_lo, old_idx_hi,
                                interval_changed_on_it>>
            [] o.kind = "refit" ->
                 \* p = curve_fit(f_fit, t[idx_extrema], omega22[idx_extrema], p0=p)
                 /\ \E q \in CurveFit(solver, p, o.e) :
                       IF q = NoFit
                       THEN Fail("FitFailed") /\ p' = p
                       ELSE /\ p' = q
                            /\ IF LateCapExceeded(it + 1)
                               THEN Fail("DidNotConverge")
                               ELSE UNCHANGED <<pc, err>>
                 /\ old_extrema' = ValuesAt(omega22, o.e)
                 /\ UNCHANGED <<old_idx_lo, old_idx_hi, interval_changed_on_it>>
    /\ UNCHANGED <<t, t0, solver, turn, other>>
    /\ UNCHANGED <<method, extrema_type, len, phase22, sign, extrema,
                   count, result, Nbefore, Nafter, increase_idx_ref_if_needed,
                   ref_in, K_in, ref_out>>

\* find_extrema after a resolver call has returned: append, advance idx_ref,
\* test for end-of-data and for the runaway cap
DriverStep ==
    /\ pc = "returned"
    /\ ref_out' = idx_ref
    /\ IF Len(idx_extrema) <= N
       THEN \* idx_extrema[N]
            Fail("IndexError") /\ UNCHANGED <<extrema, idx_ref, result>>
       ELSE /\ extrema' = Append(extrema, AppendedExtremum(idx_extrema))
            /\ IF Len(idx_extrema) <= N + 2
               THEN \* idx_extrema[N+1] or idx_extrema[N+2]
                    Fail("IndexError") /\ UNCHANGED <<idx_ref, result>>
               ELSE /\ idx_ref' = NextIdxRef(idx_extrema)
                    /\ IF EndOfData(idx_extrema)
                       THEN /\ pc' = "done"
                            /\ result' = extrema'
                            /\ err' = err
                       ELSE IF Runaway(count)
                       THEN Fail("RunawayLoop") /\ result' = result
                       ELSE pc' = "call" /\ UNCHANGED <<err, result>>
    /\ UNCHANGED <<t, t0, solver, turn, other>>
    /\ UNCHANGED <<method, extrema_type, len, phase22, omega22, sign, p, K, count,
                   Nbefore, Nafter, increase_idx_ref_if_needed, idx_lo, idx_hi,
                   it, old_extrema, old_idx_lo, old_idx_hi,
                   interval_changed_on_it, idx_extrema, ref_in, K_in>>

Next ==
    \/ ValidateType
    \/ AmplitudeFindPeaks
    \/ GlobalFit
    \/ ChooseIdxRef
    \/ CallResolver
    \/ EnterResolver
    \/ ResolverPass
    \/ DriverStep

Spec == Init /\ [][Next]_vars

-----------------------------------------------------------------------------
(* Properties *)

StrictlyIncreasing(a) ==
    \A i \in 1..Len(a) : \A j \in 1..Len(a) : i < j => a[i] < a[j]

InWalk == pc \in {"call", "enter", "resolve", "returned"}

FrequencyFitsDone == pc = "done" /\ method = "FrequencyFits"

\* C1: the array find_extrema returns is strictly increasing.
C1_ReturnedExtremaIncreasing ==
    FrequencyFitsDone => StrictlyIncreasing(result)

\* C2: a returning FindExtremaNearIdxRef hands back Nbefore+Nafter or
\* Nbefore+Nafter-1 extrema, never fewer.
C2_ReturnedLength ==
    pc = "returned" =>
        Len(idx_extrema) \in {Nbefore + Nafter, Nbefore + Nafter - 1}

\* C3: no silent truncation: a return has Nbefore extrema before idx_ref and
\* Nafter at or after it, unless idx_hi is the series length and the
\* shortfall is on the right.
C3_NoSilentTruncation ==
    pc = "returned" =>
        \/ /\ CountBelow(idx_extrema, idx_ref) = Nbefore
           /\ CountAtOrAbove(idx_extrema, idx_ref) = Nafter
        \/ /\ idx_hi = len
           /\ CountBelow(idx_extrema, idx_ref) = Nbefore
           /\ CountAtOrAbove(idx_extrema, idx_ref) < Nafter

\* C4: when a resolver call of the walk returns, idx_extrema[N] is the last
\* returned extremum left of the returned idx_ref and idx_extrema[N+1] is at
\* or after it.
C4_AppendedIsLeftOfIdxRef ==
    pc = "returned" =>
        /\ CountBelow(idx_extrema, idx_ref) = Nbefore
        /\ At0(idx_extrema, N) < idx_ref
        /\ Len(idx_extrema) >= N + 2 => At0(idx_extrema, N + 1) >= idx_ref

\* C5: idx_ref never decreases during a walk, neither in a resolver pass nor
\* when the driver advances it.
C5_IdxRefNeverDecreases ==
    [][InWalk => idx_ref' >= idx_ref]_vars

C5_Witness ==
    pc = "call" /\ ref_out > ref_in /\ idx_ref > ref_out

\* C6: a resolver return that is one extremum short makes find_extrema append
\* that call's extremum, stop and return the accumulated indices, without an
\* exception.
C6_EndOfDataReturnsNormally ==
    [][(pc = "returned" /\ Len(idx_extrema) = Nbefore + Nafter - 1) =>
          /\ pc' = "done"
          /\ err' = "none"
          /\ result' = Append(extrema, At0(idx_extrema, N))]_vars

C6_Witness ==
    /\ FrequencyFitsDone
    /\ Len(idx_extrema) = Nbefore + Nafter - 1
    /\ idx_hi = len
    /\ Len(result) >= 2

\* C7 as stated: a resolver return with 2N or more extrema makes the driver
\* continue with another resolver call.
C7_ContinuesFrom2N ==
    [][(pc = "returned" /\ Len(idx_extrema) >= 2 * N /\ ~Runaway(count)) =>
          pc' = "call"]_vars

\* C7, amended: the loop stops normally exactly on a return of 2N extrema; a
\* longer return continues (or hits the count cap), a shorter one fails in
\* the reads of positions N+1 and N+2.
C7_StopsAtExactly2N ==
    [][pc = "returned" =>
          /\ pc' = "done" <=> Len(idx_extrema) = 2 * N
          /\ (Len(idx_extrema) > 2 * N /\ ~Runaway(count)) => pc' = "call"
          /\ Len(idx_extrema) < 2 * N => (pc' = "failed" /\ err' = "IndexError")]_vars

C7_Witness ==
    FrequencyFitsDone /\ Len(idx_extrema) = 2 * N /\ count = 1

\* C8: a resolver call makes at most ItCap passes; the pass after them raises
\* the non-convergence exception, and until then a pass is always possible.
C8_ResolverTerminates ==
    /\ it <= ItCap + 1
    /\ it = ItCap + 1 => (pc = "failed" /\ err = "NotConverged")
    /\ pc = "resolve" => it <= ItCap

C8_Witness ==
    pc = "failed" /\ err = "NotConverged" /\ it = ItCap + 1

\* C9 as stated: find_extrema makes at most CountCap resolver calls.
C9_AtMostCapCalls ==
    count <= CountCap

\* C9, amended: the cap is tested after the call, so one more call than the
\* cap is made and the runaway error follows that call.
C9_AtMostCapPlusOneCalls ==
    /\ count <= CountCap + 1
    /\ pc = "call" => count <= CountCap
    /\ err = "RunawayLoop" => (pc = "failed" /\ count = CountCap + 1)

C9_Witness ==
    err = "RunawayLoop" /\ Len(extrema) = CountCap + 1

\* C10: exactly 'maxima'/'peaks' (sign +1) and 'minima'/'troughs' (sign -1)
\* are accepted; any other name fails before a fit, a detection or a
\* resolver call.
C10_TypeValidation ==
    pc # "validate" =>
        /\ extrema_type \in {"maxima", "peaks"} => (sign = 1 /\ err # "InvalidExtremaType")
        /\ extrema_type \in {"minima", "troughs"} => (sign = 0 - 1 /\ err # "InvalidExtremaType")
        /\ extrema_type \notin {"maxima", "peaks", "minima", "troughs"} =>
              /\ pc = "failed"
              /\ err = "InvalidExtremaType"
              /\ p = NoFit
              /\ count = 0
              /\ it = 0
              /\ idx_extrema = <<>>
              /\ result = NoResult

C10_Witness ==
    /\ pc = "failed"
    /\ err = "InvalidExtremaType"
    /\ extrema_type = "extrema"
    /\ p = NoFit

\* the samples whose phase exceeds phase22[0] + 1.2*N*4*pi
Reaching ==
    {i \in 0..(len - 1) :
        phase22[i] * KInitial.den > phase22[0] * KInitial.den + FourPi * KInitial.num * N}

PastStartUp ==
    /\ method = "FrequencyFits"
    /\ pc \notin {"validate", "global_fit", "choose_ref"}
    /\ err \notin {"InvalidExtremaType", "FitFailed"}

\* C11: the starting idx_ref is the first sample whose phase exceeds
\* phase22[0] + K*N*4*pi with K = 1.2; when no sample does, find_extrema fails
\* with "data set too short" and no resolver call is made.
C11_StartingIdxRef ==
    PastStartUp =>
        IF Reaching = {}
        THEN /\ pc = "failed"
             /\ err = "DataSetTooShort"
             /\ count = 0
             /\ it = 0
             /\ idx_extrema = <<>>
             /\ result = NoResult
        ELSE /\ err # "DataSetTooShort"
             /\ (pc = "call" /\ count = 0) =>
                   /\ idx_ref \in Reaching
                   /\ \A j \in Reaching : idx_ref <= j

C11_Witness ==
    pc = "failed" /\ err = "DataSetTooShort" /\ Reaching = {} /\ p # NoFit

\* a series of exactly five modulation cycles, each with its extremum
FiveCycles ==
    /\ Cardinality(Cycles(len)) = 5
    /\ \A c \in Cycles(len) : omega22[2 * c + 1] > omega22[2 * c] + 1

\* C12 as stated: a series of five oscillation cycles makes find_extrema fail
\* with "data set too short" in the driver, before any resolver call.
C12_FiveCyclesTooShort ==
    (PastStartUp /\ FiveCycles) =>
        (pc = "failed" /\ err = "DataSetTooShort" /\ count = 0)

\* C12, amended: five cycles advance the phase by more than K*N*4*pi, so the
\* driver's "data set too short" test passes and a resolver call is made;
\* find_extrema does not return from such a series, it fails in that call.
C12_FiveCyclesFailInResolver ==
    (PastStartUp /\ FiveCycles) =>
        /\ Reaching # {}
        /\ err # "DataSetTooShort"
        /\ pc # "done"
        /\ count <= 1
        /\ pc = "failed" => (count = 1 /\ it >= 1 /\ result = NoResult)

C12_Witness ==
    /\ FiveCycles
    /\ pc = "failed"
    /\ err = "InsufficientRightExtrema"
    /\ count = 1

-----------------------------------------------------------------------------
(* FindExtremaNearIdxRef called directly: its arguments are the caller's *)

\* idx_ref of a direct call: near the start of the data, and in the middle
RefInputs(n) == {4, n \div 2}

\* K of a direct call: the driver's first estimate, or a larger one
KInputs == {KInitial, [num |-> 2, den |-> 1]}

InitResolver ==
    /\ method = "FrequencyFits"
    /\ extrema_type \in {"maxima", "minima"}
    /\ sign = SignOfType(extrema_type)
    /\ len = MaxLen
    /\ t = TimesOf(len)
    /\ t0 = FitCenterTime(t, len)
    /\ \E step \in PhaseSteps : phase22 = PhaseOf(len, step)
    /\ \E amp \in AmpInputs(len) : omega22 = OmegaOf(len, amp)
    /\ pc = "enter"
    /\ err = "none"
    /\ p \in Fits
    /\ K \in KInputs
    /\ idx_ref \in RefInputs(len)
    /\ extrema = <<>>
    /\ count = 0
    /\ result = NoResult
    /\ Nbefore = N + 1
    /\ Nafter = N
    /\ increase_idx_ref_if_needed \in BOOLEAN
    /\ idx_lo = 0
    /\ idx_hi = 0
    /\ it = 0
    /\ old_extrema = <<>>
    /\ old_idx_lo = 0 - 1
    /\ old_idx_hi = 0 - 1
    /\ interval_changed_on_it = Unassigned
    /\ idx_extrema = <<>>
    /\ ref_in = idx_ref
    /\ K_in = K
    /\ ref_out = 0
    /\ solver = AnySolver
    /\ turn = 1
    /\ other = NoInvocation

NextResolver ==
    \/ EnterResolver
    \/ ResolverPass

SpecResolver == InitResolver /\ [][NextResolver]_vars

\* a pass that runs the detection: not the pass beyond the cap
DetectingPass ==
    pc = "resolve" /\ ~CapExceeded(it + 1) /\ idx_lo < idx_hi

\* C13: with increase_idx_ref_if_needed disabled, a pass that finds fewer than
\* Nbefore extrema left of idx_ref while idx_lo is 0 raises the
\* insufficient-left error in that pass and leaves idx_ref as it was; with
\* the flag enabled that error is never raised.
C13_InsufficientLeftRaised ==
    [][(DetectingPass /\ idx_lo = 0
          /\ CountBelow(idx_extrema', idx_ref) < Nbefore) =>
            IF increase_idx_ref_if_needed
            THEN err' # "InsufficientLeftExtrema"
            ELSE /\ pc' = "failed"
                 /\ err' = "InsufficientLeftExtrema"
                 /\ idx_ref' = idx_ref]_vars

\* C13 for a detection that found at least one extremum
C13_InsufficientLeftRaisedNonEmpty ==
    [][(DetectingPass /\ idx_lo = 0 /\ idx_extrema' # <<>>
          /\ CountBelow(idx_extrema', idx_ref) < Nbefore) =>
            IF increase_idx_ref_if_needed
            THEN err' # "InsufficientLeftExtrema"
            ELSE /\ pc' = "failed"
                 /\ err' = "InsufficientLeftExtrema"
                 /\ idx_ref' = idx_ref]_vars

C13_SeenInsufficientLeft ==
    pc = "failed" /\ err = "InsufficientLeftExtrema" /\ ~increase_idx_ref_if_needed

-----------------------------------------------------------------------------
(* envelope_fitting_function.__call__ on its own *)

\* the times handed to a call: up to three of them, before, at and after the
\* merger times T = FitT(p) the envelopes have
CallTimes == {0 - 2, 0, 1, 2, 3}

CallLens == 1..3

InitEnvelope ==
    /\ method = "FrequencyFits"
    /\ extrema_type = "maxima"
    /\ sign = 1
    /\ len \in CallLens
    /\ t \in [0..(len - 1) -> CallTimes]
    /\ t0 = 0 - 2
    /\ phase22 = PhaseOf(len, 0)
    /\ omega22 = PhaseOf(len, 0)
    /\ pc = "f_fit"
    /\ err = "none"
    /\ p \in Fits
    /\ K = KInitial
    /\ idx_ref = 0
    /\ extrema = <<>>
    /\ count = 0
    /\ result = NoResult
    /\ Nbefore = N + 1
    /\ Nafter = N
    /\ increase_idx_ref_if_needed = TRUE
    /\ idx_lo = 0
    /\ idx_hi = 0
    /\ it = 0
    /\ old_extrema = <<>>
    /\ old_idx_lo = 0 - 1
    /\ old_idx_hi = 0 - 1
    /\ interval_changed_on_it = Unassigned
    /\ idx_extrema = <<>>
    /\ ref_in = 0
    /\ K_in = KInitial
    /\ ref_out = 0
    /\ solver = AnySolver
    /\ turn = 1
    /\ other = NoInvocation

\* f_fit(t, f0, f1, T): raise when t.max() > T, else return A*(T-t)**n
EnvelopeCall ==
    /\ pc = "f_fit"
    /\ IF EnvelopeRaises({t[i] : i \in 0..(len - 1)}, FitT(p))
       THEN Fail("FittingDomain") /\ result' = result
       ELSE /\ pc' = "done"
            /\ err' = err
            /\ result' = EnvelopeBase(t, len, FitT(p))
    /\ UNCHANGED <<t, t0, solver, turn, other>>
    /\ UNCHANGED <<method, extrema_type, len, phase22, omega22, sign, p, K,
                   idx_ref, extrema, count, Nbefore, Nafter,
                   increase_idx_ref_if_needed, idx_lo, idx_hi, it, old_extrema,
                   old_idx_lo, old_idx_hi, interval_changed_on_it, idx_extrema,
                   ref_in, K_in, ref_out>>

NextEnvelope == EnvelopeCall

SpecEnvelope == InitEnvelope /\ [][NextEnvelope]_vars

\* C14 as stated: an evaluation with max(times) >= T fails with the
\* fitting-domain error and returns no value, also when max(times) = T.
C14_FailsAtOrBeyondT ==
    (pc # "f_fit" /\ \E i \in 0..(len - 1) : t[i] >= FitT(p)) =>
        (pc = "failed" /\ err = "FittingDomain" /\ result = NoResult)

\* what the code does: the evaluation fails exactly when max(times) > T
C14_FailsExactlyBeyondT ==
    pc # "f_fit" =>
        IF \E i \in 0..(len - 1) : t[i] > FitT(p)
        THEN pc = "failed" /\ err = "FittingDomain" /\ result = NoResult
        ELSE pc = "done" /\ err = "none" /\ Len(result) = len

C14_ReturnedAtT ==
    /\ pc = "done"
    /\ \E i \in 0..(len - 1) : t[i] = FitT(p)
    /\ \E i \in 1..len : result[i] = 0

-----------------------------------------------------------------------------

\* C15: a find_extrema call that fails hands nothing to its caller, whatever
\* earlier resolver calls have accumulated; a value is handed over only by a
\* call that ends without an error.
C15_NoPartialResult ==
    /\ pc = "failed" => (err # "none" /\ result = NoResult)
    /\ err # "none" => pc = "failed"
    /\ result # NoResult => (pc = "done" /\ err = "none")

C15_Witness ==
    /\ pc = "failed"
    /\ err \in {"InsufficientRightExtrema", "NotConverged", "FitFailed", "IndexError"}
    /\ Len(extrema) >= 2
    /\ result = NoResult

\* C17: no step of find_extrema or of FindExtremaNearIdxRef changes t,
\* phase22 or omega22, nor the envelope model's t0 once the model is built,
\* whether the call returns or raises; a resolver pass also leaves its
\* arguments sign, Nbefore, Nafter and the driver's extrema and count alone.
C17_InputsUnchanged ==
    [][/\ t' = t
       /\ phase22' = phase22
       /\ omega22' = omega22
       /\ len' = len
       /\ pc # "global_fit" => t0' = t0
       /\ pc = "resolve" =>
             /\ sign' = sign
             /\ Nbefore' = Nbefore
             /\ Nafter' = Nafter
             /\ increase_idx_ref_if_needed' = increase_idx_ref_if_needed
             /\ extrema' = extrema
             /\ count' = count]_vars

C17_Witness ==
    /\ pc = "failed"
    /\ err = "InsufficientRightExtrema"
    /\ count >= 2
    /\ K # KInitial
    /\ p # NoFit
    /\ t0 = FitCenterTime(t, len)
    /\ omega22 \in {OmegaOf(len, amp) : amp \in AmpInputs(len)}

-----------------------------------------------------------------------------
(* Two find_extrema invocations on one series, their steps interleaved.    *)
(* The variables hold the locals of the invocation that is running, other  *)
(* the locals of the one that is not; the series is the only state that    *)
(* both invocations see.                                                   *)

\* what an invocation owns: the arguments and locals of find_extrema and of
\* FindExtremaNearIdxRef, and the f_fit object find_extrema builds (t0)
Locals ==
    [extrema_type |-> extrema_type, pc |-> pc, err |-> err, sign |-> sign,
     p |-> p, K |-> K, idx_ref |-> idx_ref, extrema |-> extrema,
     count |-> count, result |-> result, Nbefore |-> Nbefore,
     Nafter |-> Nafter,
     increase_idx_ref_if_needed |-> increase_idx_ref_if_needed,
     idx_lo |-> idx_lo, idx_hi |-> idx_hi, it |-> it,
     old_extrema |-> old_extrema, old_idx_lo |-> old_idx_lo,
     old_idx_hi |-> old_idx_hi,
     interval_changed_on_it |-> interval_changed_on_it,
     idx_extrema |-> idx_extrema, ref_in |-> ref_in, K_in |-> K_in,
     ref_out |-> ref_out, t0 |-> t0]

\* the locals of an invocation that has not made a step
FreshLocals(type) ==
    [extrema_type |-> type, pc |-> "validate", err |-> "none", sign |-> 0,
     p |-> NoFit, K |-> KInitial, idx_ref |-> 0, extrema |-> <<>>,
     count |-> 0, result |-> NoResult, Nbefore |-> N + 1, Nafter |-> N,
     increase_idx_ref_if_needed |-> TRUE,
     idx_lo |-> 0, idx_hi |-> 0, it |-> 0,
     old_extrema |-> <<>>, old_idx_lo |-> 0 - 1, old_idx_hi |-> 0 - 1,
     interval_changed_on_it |-> Unassigned,
     idx_extrema |-> <<>>, ref_in |-> 0, K_in |-> KInitial,
     ref_out |-> 0, t0 |-> Unassigned]

\* the series of the interleaved runs: full modulation, or a weak fifth cycle
PairAmps(n) ==
    {[c \in Cycles(n) |-> 2], [c \in Cycles(n) |-> IF c = 4 THEN 1 ELSE 2]}

Solvers == 0..MaxSlope

InitPair ==
    /\ method = "FrequencyFits"
    /\ extrema_type \in {"maxima", "minima"}
    /\ \E type \in {"maxima", "minima"} : other = FreshLocals(type)
    /\ turn = 1
    /\ solver \in Solvers
    /\ len = MaxLen - 2
    /\ t = TimesOf(len)
    /\ \E step \in PhaseSteps : phase22 = PhaseOf(len, step)
    /\ \E amp \in PairAmps(len) : omega22 = OmegaOf(len, amp)
    /\ pc = "validate"
    /\ err = "none"
    /\ sign = 0
    /\ p = NoFit
    /\ K = KInitial
    /\ idx_ref = 0
    /\ extrema = <<>>
    /\ count = 0
    /\ result = NoResult
    /\ Nbefore = N + 1
    /\ Nafter = N
    /\ increase_idx_ref_if_needed = TRUE
    /\ idx_lo = 0
    /\ idx_hi = 0
    /\ it = 0
    /\ old_extrema = <<>>
    /\ old_idx_lo = 0 - 1
    /\ old_idx_hi = 0 - 1
    /\ interval_changed_on_it = Unassigned
    /\ idx_extrema = <<>>
    /\ ref_in = 0
    /\ K_in = KInitial
    /\ ref_out = 0
    /\ t0 = Unassigned

KResumedShared(saved) == K

\* K of the invocation that resumes: its own local, as it left it
KResumed(saved) == saved.K

\* the scheduler runs the other invocation (one that has not ended)
Switch ==
    /\ other.pc \notin {"done", "failed"}
    /\ turn' = 3 - turn
    /\ other' = Locals
    /\ extrema_type' = other.extrema_type
    /\ pc' = other.pc
    /\ err' = other.err
    /\ sign' = other.sign
    /\ p' = other.p
    /\ K' = KResumed(other)
    /\ idx_ref' = other.idx_ref
    /\ extrema' = other.extrema
    /\ count' = other.count
    /\ result' = other.result
    /\ Nbefore' = other.Nbefore
    /\ Nafter' = other.Nafter
    /\ increase_idx_ref_if_needed' = other.increase_idx_ref_if_needed
    /\ idx_lo' = other.idx_lo
    /\ idx_hi' = other.idx_hi
    /\ it' = other.it
    /\ old_extrema' = other.old_extrema
    /\ old_idx_lo' = other.old_idx_lo
    /\ old_idx_hi' = other.old_idx_hi
    /\ interval_changed_on_it' = other.interval_changed_on_it
    /\ idx_extrema' = other.idx_extrema
    /\ ref_in' = other.ref_in
    /\ K_in' = other.K_in
    /\ ref_out' = other.ref_out
    /\ t0' = other.t0
    /\ UNCHANGED <<method, len, t, phase22, omega22, solver>>

NextPair ==
    \/ ValidateType
    \/ GlobalFit
    \/ ChooseIdxRef
    \/ CallResolver
    \/ EnterResolver
    \/ ResolverPass
    \/ DriverStep
    \/ Switch

SpecPair == InitPair /\ [][NextPair]_vars

\* the two invocations are the same call at the same point of its run
SamePosition ==
    /\ extrema_type = other.extrema_type
    /\ pc = other.pc
    /\ count = other.count
    /\ it = other.it

-----------------------------------------------------------------------------

\* C18: the "two or more extrema too short" exception is raised only by a
\* pass that started with idx_hi = len(phase22), counts at most Nafter-2
\* extrema at or after idx_ref, leaves the window as it was recorded at its
\* last change, and comes at least two passes after that change.
C18_TwoShortOnlyWhenSettled ==
    [][(err = "none" /\ err' = "InsufficientRightExtrema") =>
          /\ pc = "resolve"
          /\ idx_hi = len
          /\ CountAtOrAbove(idx_extrema', idx_ref') <= Nafter - 2
          /\ <<idx_lo', idx_hi'>> = <<old_idx_lo, old_idx_hi>>
          /\ <<idx_lo', idx_hi'>> = <<idx_lo, idx_hi>>
          /\ interval_changed_on_it # Unassigned
          /\ it' > interval_changed_on_it + 1]_vars

C18_Witness ==
    /\ pc = "failed"
    /\ err = "InsufficientRightExtrema"
    /\ it = interval_changed_on_it + 2
    /\ idx_hi = len
    /\ Len(extrema) >= 1

\* a pass that ran the detection, found something and did not raise
CorrectingPass ==
    DetectingPass /\ idx_extrema' # <<>> /\ err' = "none"

\* C19: a too-many correction puts the bound strictly between the last
\* discarded (kept) and the first kept (discarded) extremum, at their
\* midpoint, never on an extremum, and leaves every discarded extremum
\* outside the new window [idx_lo, idx_hi).
C19_ExcessDiscarded ==
    [][CorrectingPass =>
          LET e == idx_extrema'
              nl == CountBelow(e, idx_ref)
              nr == CountAtOrAbove(e, idx_ref')
          IN  /\ nl > Nbefore =>
                    LET a == At0(e, nl - Nbefore - 1)
                        b == At0(e, nl - Nbefore)
                    IN  /\ a < idx_lo' /\ idx_lo' < b
                        /\ 2 * idx_lo' \in {a + b - 1, a + b}
                        /\ \A i \in 1..Len(e) : e[i] # idx_lo'
                        /\ \A i \in 1..(nl - Nbefore) : e[i] < idx_lo'
              /\ nr > Nafter =>
                    LET c == AtEnd(e, nr - Nafter + 1)
                        d == AtEnd(e, nr - Nafter)
                    IN  /\ c < idx_hi' /\ idx_hi' < d
                        /\ 2 * idx_hi' \in {c + d - 1, c + d}
                        /\ \A i \in 1..Len(e) : e[i] # idx_hi'
                        /\ \A k \in 1..(nr - Nafter) : AtEnd(e, k) >= idx_hi']_vars

C19_Witness ==
    /\ pc = "resolve"
    /\ interval_changed_on_it = it
    /\ CountBelow(idx_extrema, idx_ref) > Nbefore
    /\ At0(idx_extrema, 0) < idx_lo
    /\ CountAtOrAbove(idx_extrema, idx_ref) > Nafter
    /\ AtEnd(idx_extrema, 1) > idx_hi

\* C20 as stated: a too-few correction with data remaining on that side only
\* widens the window: idx_lo does not grow, idx_hi does not shrink.
C20_TooFewOnlyWidens ==
    [][CorrectingPass =>
          /\ (CountBelow(idx_extrema', idx_ref) < Nbefore /\ idx_lo # 0) =>
                idx_lo' <= idx_lo
          /\ (CountAtOrAbove(idx_extrema', idx_ref') < Nafter /\ idx_hi < len) =>
                idx_hi' >= idx_hi]_vars

\* C20, the left side alone
C20_TooFewLeftOnlyWidens ==
    [][(CorrectingPass /\ CountBelow(idx_extrema', idx_ref) < Nbefore
          /\ idx_lo # 0) => idx_lo' <= idx_lo]_vars

\* C20, the right side alone
C20_TooFewRightOnlyWidens ==
    [][(CorrectingPass /\ CountAtOrAbove(idx_extrema', idx_ref') < Nafter
          /\ idx_hi < len) => idx_hi' >= idx_hi]_vars

-----------------------------------------------------------------------------

\* a pass whose counts sent it into the correction block
MismatchPass ==
    /\ DetectingPass
    /\ idx_extrema' # <<>>
    /\ \/ CountBelow(idx_extrema', idx_ref) # Nbefore
       \/ CountAtOrAbove(idx_extrema', idx_ref) # Nafter

\* C21: a correction pass that leaves (idx_lo, idx_hi) different from the
\* recorded window records the new window and goes back to the detection,
\* without convergence test, refit or return; a resolver call returns only
\* on a pass that left idx_lo and idx_hi as they were.
C21_ChangedWindowRestarts ==
    [][/\ (MismatchPass /\ err' = "none"
             /\ <<idx_lo', idx_hi'>> # <<old_idx_lo, old_idx_hi>>) =>
                /\ pc' = "resolve"
                /\ p' = p
                /\ old_extrema' = old_extrema
                /\ interval_changed_on_it' = it'
                /\ <<old_idx_lo', old_idx_hi'>> = <<idx_lo', idx_hi'>>
       /\ (pc = "resolve" /\ pc' = "returned") =>
                /\ <<idx_lo', idx_hi'>> = <<idx_lo, idx_hi>>
                /\ interval_changed_on_it' # it'
                /\ p' = p]_vars

C21_Witness ==
    /\ pc = "resolve"
    /\ interval_changed_on_it = it
    /\ it >= 3
    /\ old_extrema # Zeros(Nbefore + Nafter)
    /\ <<old_idx_lo, old_idx_hi>> = <<idx_lo, idx_hi>>

\* frequencies that fall to zero at every trough: height a at the odd
\* samples, 0 at the even ones
VanishingInputs(n) ==
    {[i \in 0..(n - 1) |-> IF Odd(i) THEN a ELSE 0] : a \in {MaxSlope + 1, MaxSlope + 2}}

\* FindExtremaNearIdxRef called directly, also on series that touch zero
InitVanishing ==
    /\ method = "FrequencyFits"
    /\ extrema_type \in {"maxima", "minima"}
    /\ sign = SignOfType(extrema_type)
    /\ len = MaxLen
    /\ t = TimesOf(len)
    /\ t0 = FitCenterTime(t, len)
    /\ \E step \in PhaseSteps : phase22 = PhaseOf(len, step)
    /\ omega22 \in VanishingInputs(len) \cup {OmegaOf(len, [c \in Cycles(len) |-> 2])}
    /\ pc = "enter"
    /\ err = "none"
    /\ p \in Fits
    /\ K \in KInputs
    /\ idx_ref \in RefInputs(len) \cup {(len \div 2) + 1}
    /\ extrema = <<>>
    /\ count = 0
    /\ result = NoResult
    /\ Nbefore = N + 1
    /\ Nafter = N
    /\ increase_idx_ref_if_needed \in BOOLEAN
    /\ idx_lo = 0
    /\ idx_hi = 0
    /\ it = 0
    /\ old_extrema = <<>>
    /\ old_idx_lo = 0 - 1
    /\ old_idx_hi = 0 - 1
    /\ interval_changed_on_it = Unassigned
    /\ idx_extrema = <<>>
    /\ ref_in = idx_ref
    /\ K_in = K
    /\ ref_out = 0
    /\ solver = AnySolver
    /\ turn = 1
    /\ other = NoInvocation

SpecVanishing == InitVanishing /\ [][NextResolver]_vars

\* C22: a resolver call never returns on its first pass, for every input
\* series: the all-zero baseline keeps the convergence test from succeeding
\* before a refit of that call has replaced it.
C22_NoReturnOnFirstPass ==
    [][(pc = "resolve" /\ pc' = "returned") =>
          /\ it' >= 2
          /\ old_extrema # Zeros(Nbefore + Nafter)]_vars

\* a call that returned from its first pass, with the envelope it was given
C22_ReturnedOnFirstPass ==
    /\ pc = "returned"
    /\ it = 1
    /\ old_extrema = Zeros(Nbefore + Nafter)
    /\ ValuesAt(omega22, idx_extrema) = old_extrema

\* C23: a resolver pass changes idx_ref only when Nleft < Nbefore, idx_lo = 0,
\* the flag is set and at least two candidates lie at or after idx_ref; the
\* new idx_ref is strictly between the first two of them, one candidate
\* changes sides, and the idx_hi correction of the pass works with the right
\* count less one.  With fewer than two such candidates idx_ref and idx_lo
\* stay.
C23_IdxRefShift ==
    [][pc = "resolve" =>
          LET e == idx_extrema'
              nl == CountBelow(e, idx_ref)
              nr == CountAtOrAbove(e, idx_ref)
              starved == /\ MismatchPass
                         /\ nl < Nbefore
                         /\ idx_lo = 0
                         /\ increase_idx_ref_if_needed
          IN  /\ idx_ref' # idx_ref => (starved /\ nr >= 2)
              /\ (starved /\ nr >= 2) =>
                    /\ At0(e, nl) < idx_ref'
                    /\ idx_ref' < At0(e, nl + 1)
                    /\ idx_ref < idx_ref'
                    /\ CountBelow(e, idx_ref') = nl + 1
                    /\ CountAtOrAbove(e, idx_ref') = nr - 1
                    /\ idx_lo' = idx_lo
                    /\ err' = "none" =>
                          idx_hi' = IF nr - 1 > Nafter
                                    THEN HiDiscardingExcess(e, nr - 1, Nafter)
                                    ELSE IF nr - 1 < Nafter /\ idx_hi < len
                                    THEN HiWidened(phase22, len, e, UpdatedK(phase22, e))
                                    ELSE idx_hi
              /\ (starved /\ nr < 2) =>
                    (idx_ref' = idx_ref /\ idx_lo' = idx_lo)]_vars

C23_Witness ==
    /\ pc = "resolve"
    /\ idx_ref > ref_in
    /\ idx_lo = 0
    /\ CountBelow(idx_extrema, ref_in) < Nbefore
    /\ CountBelow(idx_extrema, idx_ref) = CountBelow(idx_extrema, ref_in) + 1

C23_SeenStarvedWithoutShift ==
    /\ pc = "resolve"
    /\ it >= 1
    /\ idx_ref = ref_in
    /\ idx_lo = 0
    /\ idx_extrema # <<>>
    /\ CountBelow(idx_extrema, idx_ref) < Nbefore
    /\ CountAtOrAbove(idx_extrema, idx_ref) < 2

\* the sides a correcting pass widens: too few extrema and data left there
\* (the right count is the one after a shift of idx_ref)
WidensLeft ==
    /\ CorrectingPass
    /\ CountBelow(idx_extrema', idx_ref) < Nbefore
    /\ idx_lo # 0

WidensRight ==
    /\ CorrectingPass
    /\ CountAtOrAbove(idx_extrema', idx_ref') < Nafter
    /\ idx_hi < len

\* (phase22[idx_extrema[-1]] - phase22[idx_extrema[0]]) / (4*np.pi*(len(idx_extrema)-1))
\* of the candidates just detected
KOfPass ==
    [num |-> phase22[AtEnd(idx_extrema', 1)] - phase22[At0(idx_extrema', 0)],
     den |-> FourPi * (Len(idx_extrema') - 1)]

\* C24 as stated: the bounds chosen during a call depend only on the K that
\* was passed in, the K re-estimated in a pass having no influence on the
\* window decisions of that call.
C24_BoundsFromPassedK ==
    [][/\ WidensLeft => idx_lo' = LoWidened(phase22, len, idx_extrema', K_in)
       /\ WidensRight => idx_hi' = HiWidened(phase22, len, idx_extrema', K_in)]_vars

\* C24, amended: only the initial window of a call is sized with the K passed
\* in; a pass that widens a bound sizes the step with the K it has just
\* re-estimated from its own candidates, and the K of the last pass is the K
\* the call ends with.
C24_BoundsFromReestimatedK ==
    [][/\ pc = "enter" =>
             /\ K = K_in
             /\ idx_lo' = InitialLo(phase22, len, idx_ref, K_in, Nbefore)
             /\ idx_hi' = InitialHi(phase22, len, idx_ref, K_in, Nafter)
       /\ WidensLeft => idx_lo' = LoWidened(phase22, len, idx_extrema', KOfPass)
       /\ WidensRight => idx_hi' = HiWidened(phase22, len, idx_extrema', KOfPass)
       /\ (DetectingPass /\ idx_extrema' # <<>>) => K' = KOfPass]_vars

\* a pass has just widened the window to the left, to a bound that the K
\* passed in would not have given
C24_Witness ==
    /\ pc = "resolve"
    /\ interval_changed_on_it = it
    /\ idx_extrema # <<>>
    /\ CountBelow(idx_extrema, idx_ref) < Nbefore
    /\ idx_lo = LoWidened(phase22, len, idx_extrema, K)
    /\ idx_lo # LoWidened(phase22, len, idx_extrema, K_in)

\* C25: the resolver has two caps with two distinct failures: the error of
\* the cap of line 296 goes to a call that was still correcting its window,
\* and a call whose counts are right but whose fit never settles fails with
\* the other error, that of line 429.
C25_TwoDistinctCapFailures ==
    [][(pc = "resolve" /\ err' = "NotConverged") =>
          interval_changed_on_it = ItCap]_vars

\* the error of line 429 is never raised
C25_LateCapNeverFails == err # "DidNotConverge"

\* a call that refitted in every pass from the third on and was stopped by
\* the cap of line 296
C25_RefittingCallStoppedByFirstCap ==
    /\ err = "NotConverged"
    /\ it = ItCap + 1
    /\ interval_changed_on_it # Unassigned
    /\ interval_changed_on_it <= 2

\* C26: for every resolver return, the short end-of-data return included,
\* positions N, N+1 and N+2 of the returned array exist: the driver's reads
\* of idx_extrema[N], idx_extrema[N+1] and idx_extrema[N+2] stay inside it.
C26_DriverReadsInBounds ==
    [][pc = "returned" =>
          /\ Len(idx_extrema) >= N + 3
          /\ err' # "IndexError"]_vars

\* the driver has appended idx_extrema[N] of a return and failed on the
\* next read
C26_DriverReadPastEnd ==
    /\ pc = "failed"
    /\ err = "IndexError"
    /\ Len(idx_extrema) > N
    /\ Len(idx_extrema) <= N + 2
    /\ Len(extrema) = count

\* a pass that gets as far as the K update of line 319
ReachesKUpdate ==
    /\ DetectingPass
    /\ ~EnvelopeRaises({t[i] : i \in idx_lo..(idx_hi - 1)}, FitT(p))

\* C27: whenever a pass re-estimates K, the peak finder has returned at least
\* two candidates: the K update neither indexes an empty array nor divides
\* by zero.
C27_TwoCandidatesAtKUpdate ==
    [][ReachesKUpdate =>
          /\ Len(idx_extrema') >= 2
          /\ err' # "IndexError"
          /\ K'.den # 0]_vars

\* a pass whose detection came back empty and whose K update failed
C27_KUpdateOnEmptyDetection ==
    /\ pc = "failed"
    /\ err = "IndexError"
    /\ idx_extrema = <<>>
    /\ it >= 1

\* series whose modulation dies out (the eccentricity has decayed) after the
\* first k cycles, or sets in only after them
FadingInputs(n) ==
    {[c \in Cycles(n) |-> IF c < k THEN 2 ELSE 0] : k \in 1..((n \div 2) - 1)} \cup
    {[c \in Cycles(n) |-> IF c < k THEN 0 ELSE 2] : k \in 1..((n \div 2) - 1)}

\* find_extrema on fully and on partly modulated series
InitFading ==
    /\ method \in Methods
    /\ extrema_type \in {"maxima", "minima"}
    /\ len \in {MaxLen - 2, MaxLen}
    /\ t = TimesOf(len)
    /\ t0 = Unassigned
    /\ \E step \in PhaseSteps : phase22 = PhaseOf(len, step)
    /\ \E amp \in FadingInputs(len) \cup {[c \in Cycles(len) |-> 2]} :
          omega22 = OmegaOf(len, amp)
    /\ pc = "validate"
    /\ err = "none"
    /\ sign = 0
    /\ p = NoFit
    /\ K = KInitial
    /\ idx_ref = 0
    /\ extrema = <<>>
    /\ count = 0
    /\ result = NoResult
    /\ Nbefore = N + 1
    /\ Nafter = N
    /\ increase_idx_ref_if_needed = TRUE
    /\ idx_lo = 0
    /\ idx_hi = 0
    /\ it = 0
    /\ old_extrema = <<>>
    /\ old_idx_lo = 0 - 1
    /\ old_idx_hi = 0 - 1
    /\ interval_changed_on_it = Unassigned
    /\ idx_extrema = <<>>
    /\ ref_in = 0
    /\ K_in = KInitial
    /\ ref_out = 0
    /\ solver = AnySolver
    /\ turn = 1
    /\ other = NoInvocation

SpecFading == InitFading /\ [][Next]_vars

\* the window of a resolver call contains its anchor and is not empty
WellFormedWindow ==
    /\ 0 <= idx_lo
    /\ idx_lo <= idx_ref
    /\ idx_ref <= idx_hi
    /\ idx_hi <= len
    /\ idx_lo < idx_hi

\* C28: in every pass of a resolver call, from the initial window through
\* every shrink, extension and idx_ref shift,
\* 0 <= idx_lo <= idx_ref <= idx_hi <= len and idx_lo < idx_hi.
C28_WindowWellFormed ==
    (pc = "resolve" /\ err = "none") => WellFormedWindow

\* the window stays a non-empty slice of the series that starts at or before
\* the anchor
C28_WindowInsideSeries ==
    (pc = "resolve" /\ err = "none") =>
        /\ 0 <= idx_lo
        /\ idx_lo < idx_hi
        /\ idx_hi <= len
        /\ idx_lo <= idx_ref

\* a pass has moved idx_hi below the anchor
C28_AnchorOutsideWindow ==
    /\ pc = "resolve"
    /\ err = "none"
    /\ it >= 1
    /\ idx_hi < idx_ref

\* C29: between two consecutive resolver calls of a walk the driver strictly
\* advances the anchor: the idx_ref it passes to the next call is greater
\* than the idx_ref the call before returned.
C29_AnchorAdvances ==
    [][(pc = "returned" /\ pc' = "call") =>
          /\ idx_ref' > idx_ref
          /\ idx_ref' > ref_in
          /\ idx_ref' > AtEnd(extrema', 1)]_vars

\* the driver is about to make a further call, from a later anchor
C29_Witness ==
    /\ pc = "call"
    /\ count >= 1
    /\ Len(extrema) = count
    /\ idx_ref > ref_out
    /\ ref_out >= ref_in

\* a pass that evaluates "it <= interval_changed_on_it+1": two or more
\* extrema short on the right with idx_hi at the end of the data, and the
\* window equal to the recorded one (the first operand of the "or" is False)
ReadsIntervalChangedOnIt ==
    /\ DetectingPass
    /\ idx_extrema' # <<>>
    /\ err' \notin {"FittingDomain", "InsufficientLeftExtrema"}
    /\ idx_hi = len
    /\ CountAtOrAbove(idx_extrema', idx_ref') < Nafter - 1
    /\ <<idx_lo', idx_hi>> = <<old_idx_lo, old_idx_hi>>

\* C30: interval_changed_on_it is never read before it is assigned: whenever
\* "it <= interval_changed_on_it+1" is evaluated, an earlier pass of the same
\* call has recorded a window change, so the recorded window is no longer
\* the initial (-1, -1).
C30_AssignedBeforeRead ==
    [][ReadsIntervalChangedOnIt =>
          /\ interval_changed_on_it # Unassigned
          /\ interval_changed_on_it >= 1
          /\ interval_changed_on_it <= it
          /\ <<old_idx_lo, old_idx_hi>> # <<0 - 1, 0 - 1>>
          /\ err' # "UnboundLocalError"]_vars

\* the pass after a window change has read interval_changed_on_it and was
\* let through to the curve_fit
C30_Witness ==
    /\ pc = "resolve"
    /\ err = "none"
    /\ idx_extrema # <<>>
    /\ idx_hi = len
    /\ CountAtOrAbove(idx_extrema, idx_ref) < Nafter - 1
    /\ <<idx_lo, idx_hi>> = <<old_idx_lo, old_idx_hi>>
    /\ interval_changed_on_it # Unassigned
    /\ it = interval_changed_on_it + 1

====
